---- MODULE Spec2Model ----
(***************************************************************************)
(* Model of src/Streamlit3.py, the NYC rodent inspections dashboard.       *)
(*                                                                         *)
(* The program is a Streamlit script.  Every viewer session reruns the     *)
(* whole script whenever one of its widgets changes.  A run reads the      *)
(* widgets (lines 16-28), calls load_clean(SAMPLE_N) through the process   *)
(* wide st.cache_data cache (lines 35-66), filters the returned frame      *)
(* (lines 68-72), renders the KPIs (74-84), the aggregate views (91-182)   *)
(* and the map sample (185-199).                                           *)
(*                                                                         *)
(* A data frame is a sequence of rows, a row is a record of cells.  Only   *)
(* the columns the script reads are modelled; ZIP_CODE, INSPECTION_TYPE,   *)
(* X_COORD, Y_COORD and NTA are carried through untouched by the code and  *)
(* are left out.  The sliders' ranges (5,000..100,000 and 1,000..30,000)   *)
(* are scaled down to 1..MaxSampleN and 1..MaxMapPoints.                   *)
(***************************************************************************)
EXTENDS Integers, Sequences, FiniteSets, TLC

\* ------------------------------------------------------------- bounds
MaxRows      == 3   \* rows in the remote CSV
MinSampleN   == 2   \* smallest SAMPLE_N the slider offers (scaled)
MaxSampleN   == 3   \* largest SAMPLE_N the slider offers (scaled)
MaxMapPoints == 2   \* largest MAX_MAP_POINTS the slider offers (scaled)
MaxAge       == 2   \* cache entry ages the clock is followed up to
MaxCalls     == 2   \* read_csv calls followed within one burst of callers
TTL          == 1   \* the time-to-live window the specification speaks of

\* -------------------------------------------------- program constants
YearLo      == 2010   \* line 58
YearHi      == 2024   \* line 58
RandomState == 42     \* lines 62 and 189

\* The empty cell.  read_csv turns an empty field (and the text "NaN")
\* into a missing value.
NaN == "NaN"

\* ------------------------------------------------------------ date cells
\* A date cell is text as the CSV carries it (month/day/year), a parsed
\* timestamp, the missing timestamp NaT, or an empty cell.
DateText(mm, dd, yyyy) == [kind |-> "text", a |-> mm, b |-> dd, c |-> yyyy]
Timestamp(y, m, d)     == [kind |-> "ts", a |-> y, b |-> m, c |-> d]
NaT                    == [kind |-> "NaT", a |-> 0, b |-> 0, c |-> 0]
NaNDate                == [kind |-> "NaN", a |-> 0, b |-> 0, c |-> 0]

IsLeap(y) == (y % 4 = 0 /\ y % 100 # 0) \/ y % 400 = 0

DaysInMonth(m, y) ==
    IF m = 2 THEN (IF IsLeap(y) THEN 29 ELSE 28)
    ELSE IF m \in {4, 6, 9, 11} THEN 30 ELSE 31

\* pd.to_datetime(cell, errors="coerce"): a timestamp stays as it is, text
\* naming a calendar day within the Timestamp range parses, all else is NaT.
ToDatetime(cell) ==
    IF cell.kind = "ts" THEN cell
    ELSE IF /\ cell.kind = "text"
            /\ cell.a \in 1..12
            /\ cell.c \in 1678..2261
            /\ cell.b \in 1..DaysInMonth(cell.a, cell.c)
         THEN Timestamp(cell.c, cell.a, cell.b)
         ELSE NaT

DateIsNull(cell) == cell.kind \in {"NaT", "NaN"}

\* ------------------------------------------------------------ load_clean
KeepCols == {"INSPECTION_DATE", "BOROUGH", "RESULT", "LATITUDE", "LONGITUDE"}

\* df[keep].copy()
Keep(df) == [i \in 1..Len(df) |-> [c \in KeepCols |-> df[i][c]]]

\* df["INSPECTION_DATE"] = pd.to_datetime(df["INSPECTION_DATE"], errors="coerce")
ParseDates(df) ==
    [i \in 1..Len(df) |->
        [df[i] EXCEPT !.INSPECTION_DATE = ToDatetime(df[i].INSPECTION_DATE)]]

RowComplete(r) ==
    /\ ~DateIsNull(r.INSPECTION_DATE)
    /\ r.RESULT # NaN
    /\ r.BOROUGH # NaN

\* The mutant: BOROUGH left out of the subset.
DropNA_noBorough(df) ==
    SelectSeq(df, LAMBDA r : ~DateIsNull(r.INSPECTION_DATE) /\ r.RESULT # NaN)

\* df.dropna(subset=["INSPECTION_DATE", "RESULT", "BOROUGH"])
DropNA(df) == SelectSeq(df, RowComplete)

\* df["INSPECTION_YEAR"] = ...dt.year ; df["INSPECTION_MONTH"] = ...dt.month
DeriveParts(df) ==
    [i \in 1..Len(df) |->
        [c \in KeepCols \cup {"INSPECTION_YEAR", "INSPECTION_MONTH"} |->
            IF c = "INSPECTION_YEAR" THEN df[i].INSPECTION_DATE.a
            ELSE IF c = "INSPECTION_MONTH" THEN df[i].INSPECTION_DATE.b
            ELSE df[i][c]]]

\* df["RESULT"].replace({...}): the mapping of lines 52-55
ReplaceResult(v) ==
    CASE v = "Bait applied"       -> "Bait applied"
      [] v = "Rat Activity"       -> "Rat Activity"
      [] v = "Passed"             -> "Passed"
      [] v = "Failed for Other R" -> "Failed for Other R"
      [] v = "Monitoring visit"   -> "Monitoring visit"
      [] OTHER                    -> v

NormalizeResult(df) ==
    [i \in 1..Len(df) |-> [df[i] EXCEPT !.RESULT = ReplaceResult(df[i].RESULT)]]

\* df[(df["INSPECTION_YEAR"] >= 2010) & (df["INSPECTION_YEAR"] <= 2024)]
YearWindow(df) ==
    SelectSeq(df, LAMBDA r : r.INSPECTION_YEAR >= YearLo /\ r.INSPECTION_YEAR <= YearHi)

\* ---------------------------------------------------------------- sample
\* The pseudo-random generator behind DataFrame.sample: a linear
\* congruential step stands for numpy's RandomState.
Rand(x) == (x * 75 + 1) % 65537

RemoveAt(s, i) == SubSeq(s, 1, i - 1) \o SubSeq(s, i + 1, Len(s))

RECURSIVE Draw_withReplacement(_, _, _)
\* The mutant: sample(..., replace=True), a drawn position stays in the pool.
Draw_withReplacement(pool, n, x) ==
    IF n = 0 \/ pool = <<>> THEN <<>>
    ELSE LET x1 == Rand(x)
             i  == (x1 % Len(pool)) + 1
         IN  <<pool[i]>> \o Draw_withReplacement(pool, n - 1, x1)

RECURSIVE Draw(_, _, _)
\* n positions drawn without replacement from the positions in pool.
Draw(pool, n, x) ==
    IF n = 0 \/ pool = <<>> THEN <<>>
    ELSE LET x1 == Rand(x)
             i  == (x1 % Len(pool)) + 1
         IN  <<pool[i]>> \o Draw(RemoveAt(pool, i), n - 1, x1)

\* df.sample(n=n, random_state=seed)
Sample(df, n, seed) ==
    LET pos == Draw([i \in 1..Len(df) |-> i], n, seed)
    IN  [j \in 1..Len(pos) |-> df[pos[j]]]

\* The seed a call of sample uses: random_state=42 whatever the caller.
SampleSeed(s) == RandomState

\* The mutant: len(df) >= n.
SampleIfOver_atLeast(df, n, s) ==
    IF Len(df) >= n THEN Sample(df, n, SampleSeed(s)) ELSE df

\* if len(df) > n: df = df.sample(n=n, random_state=42)
SampleIfOver(df, n, s) ==
    IF Len(df) > n THEN Sample(df, n, SampleSeed(s)) ELSE df

\* The cleaning of lines 43-58, before the sampling.
Normalize(raw) ==
    YearWindow(NormalizeResult(DeriveParts(DropNA(ParseDates(Keep(raw))))))

\* load_clean's body applied to the frame read_csv returned.
Clean(raw, sample_n, s) == SampleIfOver(Normalize(raw), sample_n, s)

\* --------------------------------------------------------------- filters
\* if RESULT_PICK: df = df[df["RESULT"].isin(RESULT_PICK)]
FilterResult(df, RESULT_PICK) ==
    IF RESULT_PICK # {} THEN SelectSeq(df, LAMBDA r : r.RESULT \in RESULT_PICK) ELSE df

\* The mutant: the borough clause applied without the test of BORO_PICK.
FilterBoro_always(df, BORO_PICK) == SelectSeq(df, LAMBDA r : r.BOROUGH \in BORO_PICK)

\* if BORO_PICK: df = df[df["BOROUGH"].isin(BORO_PICK)]
FilterBoro(df, BORO_PICK) ==
    IF BORO_PICK # {} THEN SelectSeq(df, LAMBDA r : r.BOROUGH \in BORO_PICK) ELSE df

\* lines 68-72
Filter(df, RESULT_PICK, BORO_PICK) == FilterBoro(FilterResult(df, RESULT_PICK), BORO_PICK)

\* ------------------------------------------------------------ aggregates
Column(df, col) == [i \in 1..Len(df) |-> df[i][col]]

Values(df, col) == {df[i][col] : i \in 1..Len(df)}

CountOf(df, col, v) == Cardinality({i \in 1..Len(df) : df[i][col] = v})

RECURSIVE Uniq(_)
\* The distinct values of a sequence, in the order of their first appearance.
Uniq(s) ==
    IF s = <<>> THEN <<>>
    ELSE LET rest == Uniq(SubSeq(s, 1, Len(s) - 1))
             last == s[Len(s)]
         IN  IF \E i \in 1..Len(rest) : rest[i] = last THEN rest ELSE Append(rest, last)

\* One row per distinct value of col, with the number of records holding it.
Tally(df, col) ==
    LET keys == Uniq(Column(df, col))
    IN  [j \in 1..Len(keys) |-> [key |-> keys[j], count |-> CountOf(df, col, keys[j])]]

RECURSIVE InsertByCountDesc(_, _)
InsertByCountDesc(row, s) ==
    IF s = <<>> THEN <<row>>
    ELSE IF row.count >= Head(s).count THEN <<row>> \o s
    ELSE <<Head(s)>> \o InsertByCountDesc(row, Tail(s))

RECURSIVE SortByCountDesc(_)
\* sort_values("count", ascending=False); rows of equal count keep their order.
SortByCountDesc(s) ==
    IF s = <<>> THEN <<>> ELSE InsertByCountDesc(Head(s), SortByCountDesc(Tail(s)))

RECURSIVE InsertByKeyAsc(_, _)
InsertByKeyAsc(row, s) ==
    IF s = <<>> THEN <<row>>
    ELSE IF row.key <= Head(s).key THEN <<row>> \o s
    ELSE <<Head(s)>> \o InsertByKeyAsc(row, Tail(s))

RECURSIVE SortByKeyAsc(_)
\* sort_values(<key column>)
SortByKeyAsc(s) ==
    IF s = <<>> THEN <<>> ELSE InsertByKeyAsc(Head(s), SortByKeyAsc(Tail(s)))

\* Series.value_counts(): the tally, most frequent first.
ValueCounts(df, col) == SortByCountDesc(Tally(df, col))

\* df.groupby(col).size(): the tally, in the order of the keys.
GroupSize(df, col) == SortByKeyAsc(Tally(df, col))

\* lines 96-100
ResultView(df) == ValueCounts(df, "RESULT")

RECURSIVE Reversed(_)
Reversed(s) == IF s = <<>> THEN <<>> ELSE Append(Reversed(Tail(s)), Head(s))

\* The mutant: ascending=True.
BoroView_ascending(df) == Reversed(SortByCountDesc(ValueCounts(df, "BOROUGH")))

\* lines 110-115
BoroView(df) == SortByCountDesc(ValueCounts(df, "BOROUGH"))

\* lines 131-135
YearlyView(df) == SortByKeyAsc(GroupSize(df, "INSPECTION_YEAR"))

\* pd.to_datetime(m, format="%m").strftime("%b")
MonthAbbr(m) ==
    <<"Jan", "Feb", "Mar", "Apr", "May", "Jun",
      "Jul", "Aug", "Sep", "Oct", "Nov", "Dec">>[m]

\* lines 153-158
MonthView(df) ==
    LET month == SortByKeyAsc(GroupSize(df, "INSPECTION_MONTH"))
    IN  [j \in 1..Len(month) |->
            [key |-> month[j].key, count |-> month[j].count,
             MONTH |-> MonthAbbr(month[j].key)]]

\* lines 142-148: the annotation is placed when the yearly view has a row
\* for 2020, at that row's count (0 stands for no annotation).
CovidAnnotation(yearly) ==
    IF \E j \in 1..Len(yearly) : yearly[j].key = 2020
    THEN yearly[CHOOSE j \in 1..Len(yearly) : yearly[j].key = 2020].count
    ELSE 0

\* lines 168-174: the year x month table of counts, absent pairs filled
\* with 0, the columns renamed to the months' abbreviations.
Pivot(df) ==
    LET years  == GroupSize(df, "INSPECTION_YEAR")
        months == GroupSize(df, "INSPECTION_MONTH")
    IN  [index   |-> [i \in 1..Len(years) |-> years[i].key],
         columns |-> [j \in 1..Len(months) |-> MonthAbbr(months[j].key)],
         values  |-> [i \in 1..Len(years) |-> [j \in 1..Len(months) |->
                        Cardinality({k \in 1..Len(df) :
                            /\ df[k].INSPECTION_YEAR = years[i].key
                            /\ df[k].INSPECTION_MONTH = months[j].key})]]]

\* ------------------------------------------------------------------- map
\* df.dropna(subset=["LATITUDE", "LONGITUDE"])
GeoRows(df) == SelectSeq(df, LAMBDA r : r.LATITUDE # NaN /\ r.LONGITUDE # NaN)

\* lines 187-189
MapSample(df, MAX_MAP_POINTS, s) == SampleIfOver(GeoRows(df), MAX_MAP_POINTS, s)

\* ------------------------------------------------------------------ KPIs
SetMin(S) == CHOOSE x \in S : \A y \in S : x <= y

SetMax(S) == CHOOSE x \in S : \A y \in S : x >= y

\* int(df["INSPECTION_YEAR"].min()) raises ValueError on an empty frame:
\* min() of no values is NaN.
YearRangeRaises(df) == Len(df) = 0

\* lines 76-84
KPIs(df, RESULT_PICK) ==
    [rows      |-> Len(df),
     boroughs  |-> Cardinality(Values(df, "BOROUGH")),
     year_min  |-> SetMin(Values(df, "INSPECTION_YEAR")),
     year_max  |-> SetMax(Values(df, "INSPECTION_YEAR")),
     results   |-> Cardinality(RESULT_PICK)]

\* ---------------------------------------------------------------- inputs
\* The rows the remote CSV is made of: two clean rows with both
\* coordinates, a clean row with a latitude only, and one row for each
\* reason load_clean drops a row.
RowPool ==
    { [INSPECTION_DATE |-> DateText(1, 15, 2015), BOROUGH |-> "MANHATTAN",
       RESULT |-> "Passed", LATITUDE |-> "40.71", LONGITUDE |-> "-73.99"],
      [INSPECTION_DATE |-> DateText(7, 4, 2015), BOROUGH |-> "MANHATTAN",
       RESULT |-> "Stoppage done", LATITUDE |-> "40.80", LONGITUDE |-> "-73.95"],
      [INSPECTION_DATE |-> DateText(3, 2, 2020), BOROUGH |-> "BROOKLYN",
       RESULT |-> "Rat Activity", LATITUDE |-> "40.65", LONGITUDE |-> NaN],
      [INSPECTION_DATE |-> DateText(13, 1, 2015), BOROUGH |-> "BROOKLYN",
       RESULT |-> "Passed", LATITUDE |-> NaN, LONGITUDE |-> NaN],
      [INSPECTION_DATE |-> DateText(6, 30, 2009), BOROUGH |-> "MANHATTAN",
       RESULT |-> "Passed", LATITUDE |-> "40.71", LONGITUDE |-> "-73.99"],
      [INSPECTION_DATE |-> DateText(2, 29, 2016), BOROUGH |-> NaN,
       RESULT |-> "Passed", LATITUDE |-> "40.71", LONGITUDE |-> "-73.99"],
      [INSPECTION_DATE |-> DateText(5, 9, 2018), BOROUGH |-> "BROOKLYN",
       RESULT |-> NaN, LATITUDE |-> NaN, LONGITUDE |-> "-73.95"] }

\* The frames read_csv can return: up to n rows of the pool.
Payloads(n) == UNION {[1..k -> RowPool] : k \in 0..n}

\* line 16
SampleNs == MinSampleN..MaxSampleN

\* line 17
MapPoints == 1..MaxMapPoints

\* line 20
ResultOptions ==
    {"Passed", "Rat Activity", "Bait applied", "Failed for Other R", "Monitoring visit"}

\* line 26
BoroOptions == {"MANHATTAN", "BROOKLYN", "BRONX", "QUEENS", "STATEN ISLAND"}

\* The selections of the two multiselects the model follows: the default
\* of each, and for the results nothing selected, for the boroughs one
\* selected.
ResultPicks == {{}, ResultOptions}

BoroPicks == {{}, {"MANHATTAN"}}

\* The viewer sessions.
Sessions == {"s1", "s2"}

\* ----------------------------------------------------------------- state
VARIABLES
    remote,   \* the frame pd.read_csv(DATA_URL) returns
    cache,    \* st.cache_data's entries of load_clean: sample_n -> [df, age]
    locks,    \* the keys whose compute lock is held
    burst,    \* per key, the read_csv calls issued since no session was
              \* inside load_clean for that key
    pc,       \* per session, the position of its script run
    key,      \* per session, the SAMPLE_N of the run in progress
    page      \* per session, what its latest run has rendered

vars == <<remote, cache, locks, burst, pc, key, page>>

NoPage == [status |-> "none"]

\* No run in progress.
NoKey == 0

\* The sessions inside load_clean for key k.
Inside(k, pcs, keys) == {s \in Sessions : pcs[s] \in {"lock", "fetch"} /\ keys[s] = k}

\* The calls of a burst are counted while some session is inside.
Settle(b, pcs, keys) == [k \in SampleNs |-> IF Inside(k, pcs, keys) = {} THEN 0 ELSE b[k]]

InitWith(data) ==
    /\ remote \in data
    /\ cache = <<>>
    /\ locks = {}
    /\ burst = [k \in SampleNs |-> 0]
    /\ pc = [s \in Sessions |-> "idle"]
    /\ key = [s \in Sessions |-> NoKey]
    /\ page = [s \in Sessions |-> NoPage]

\* ------------------------------------------------------ the rest of the run
\* Lines 68-199 on the frame load_clean returned, when the filters keep at
\* least one row: the page the run renders.
RenderedPage(s, w, loaded) ==
    LET shown  == Filter(loaded, w.RESULT_PICK, w.BORO_PICK)
        yearly == YearlyView(shown)
    IN  [status  |-> "ok",
         widgets |-> w,
         loaded  |-> loaded,
         df      |-> shown,
         kpi     |-> KPIs(shown, w.RESULT_PICK),
         counts  |-> ResultView(shown),
         boro    |-> BoroView(shown),
         yearly  |-> yearly,
         covid   |-> CovidAnnotation(yearly),
         month   |-> MonthView(shown),
         pivot   |-> Pivot(shown),
         geo     |-> MapSample(shown, w.MAX_MAP_POINTS, s)]

\* Lines 68-82 when the filters leave no row: the first two metrics are
\* rendered, the year range raises ValueError and the run ends there.  The
\* map slider plays no part in such a run.
RaisedPage(w, loaded) ==
    LET shown == Filter(loaded, w.RESULT_PICK, w.BORO_PICK)
    IN  [status   |-> "ValueError",
         widgets  |-> w,
         loaded   |-> loaded,
         df       |-> shown,
         rows     |-> Len(shown),
         boroughs |-> Cardinality(Values(shown, "BOROUGH"))]

\* The run of session s goes on from line 68 to its end with the frame
\* load_clean returned for SAMPLE_N = n.  The three widgets read at lines
\* 17-28 are first used here and hold any of the values followed.  Nothing
\* below line 66 touches the cache.
Render(s, n, loaded) ==
    \E RESULT_PICK \in ResultPicks, BORO_PICK \in BoroPicks :
        LET w == [SAMPLE_N |-> n, MAX_MAP_POINTS |-> 0,
                  RESULT_PICK |-> RESULT_PICK, BORO_PICK |-> BORO_PICK]
        IN  IF YearRangeRaises(Filter(loaded, RESULT_PICK, BORO_PICK))
            THEN page' = [page EXCEPT ![s] = RaisedPage(w, loaded)]
            ELSE \E MAX_MAP_POINTS \in MapPoints :
                    page' = [page EXCEPT ![s] =
                        RenderedPage(s, [w EXCEPT !.MAX_MAP_POINTS = MAX_MAP_POINTS], loaded)]

\* -------------------------------------------------------------- script runs
\* A widget changed: the script reruns and calls load_clean(SAMPLE_N).  The
\* cache holds the key: the entry is returned and the run renders its page.
\* cache_data is given no ttl (line 35): an entry is returned whatever its
\* age.
RerunHit(s) ==
    /\ pc[s] = "idle"
    /\ \E n \in SampleNs :
        /\ n \in DOMAIN cache
        /\ Render(s, n, cache[n].df)
    /\ UNCHANGED <<remote, cache, locks, burst, pc, key>>

\* The script reruns and the cache does not hold the key: the run goes on
\* to take the key's compute lock, with nothing rendered yet.
RerunMiss(s) ==
    /\ pc[s] = "idle"
    /\ \E n \in SampleNs :
        /\ n \notin DOMAIN cache
        /\ key' = [key EXCEPT ![s] = n]
    /\ pc' = [pc EXCEPT ![s] = "lock"]
    /\ page' = [page EXCEPT ![s] = NoPage]
    /\ UNCHANGED <<remote, cache, locks, burst>>

\* The lock is taken and the cache read again: another session has stored
\* the entry meanwhile.  It is returned and the run renders its page.
LockHit(s) ==
    /\ pc[s] = "lock"
    /\ key[s] \notin locks
    /\ key[s] \in DOMAIN cache
    /\ pc' = [pc EXCEPT ![s] = "idle"]
    /\ key' = [key EXCEPT ![s] = NoKey]
    /\ Render(s, key[s], cache[key[s]].df)
    /\ burst' = Settle(burst, pc', key')
    /\ UNCHANGED <<remote, cache, locks>>

\* The lock is taken, the entry is still missing: load_clean's body starts
\* and pd.read_csv(DATA_URL) is called.
LockMiss(s) ==
    /\ pc[s] = "lock"
    /\ key[s] \notin locks
    /\ key[s] \notin DOMAIN cache
    /\ locks' = locks \cup {key[s]}
    /\ pc' = [pc EXCEPT ![s] = "fetch"]
    /\ burst' = [burst EXCEPT ![key[s]] = @ + 1]
    /\ UNCHANGED <<remote, cache, key, page>>

\* read_csv returns; the rest of load_clean runs, the result is stored
\* under the key, the lock is released and the run renders its page.
DownloadOk(s) ==
    /\ pc[s] = "fetch"
    /\ LET out == Clean(remote, key[s], s)
       IN  /\ cache' = (key[s] :> [df |-> out, age |-> 0]) @@ cache
           /\ Render(s, key[s], out)
    /\ locks' = locks \ {key[s]}
    /\ pc' = [pc EXCEPT ![s] = "idle"]
    /\ key' = [key EXCEPT ![s] = NoKey]
    /\ burst' = Settle(burst, pc', key')
    /\ UNCHANGED remote

\* read_csv raises (the network, the server): nothing is stored, the lock is
\* released and the exception ends the script run.
DownloadFail(s) ==
    /\ pc[s] = "fetch"
    /\ burst[key[s]] < MaxCalls
    /\ locks' = locks \ {key[s]}
    /\ pc' = [pc EXCEPT ![s] = "idle"]
    /\ key' = [key EXCEPT ![s] = NoKey]
    /\ page' = [page EXCEPT ![s] = [status |-> "URLError"]]
    /\ burst' = Settle(burst, pc', key')
    /\ UNCHANGED <<remote, cache>>

\* Time passes: every entry of the cache grows older.
Tick ==
    /\ cache # <<>>
    /\ \A k \in DOMAIN cache : cache[k].age < MaxAge
    /\ cache' = [k \in DOMAIN cache |-> [cache[k] EXCEPT !.age = @ + 1]]
    /\ UNCHANGED <<remote, locks, burst, pc, key, page>>

\* --------------------------------------------------------- specifications
\* Concurrent viewer sessions on one server process, with the clock.
Init == InitWith(Payloads(1))

Next ==
    \/ \E s \in Sessions :
        \/ RerunHit(s)
        \/ RerunMiss(s)
        \/ LockHit(s)
        \/ LockMiss(s)
        \/ DownloadOk(s)
        \/ DownloadFail(s)
    \/ Tick

Spec == Init /\ [][Next]_vars

\* One viewer session rerunning the script over every remote frame of up
\* to MaxRows rows.
Viewer == "s1"

InitRun == InitWith(Payloads(MaxRows))

NextRun ==
    \/ RerunHit(Viewer)
    \/ RerunMiss(Viewer)
    \/ LockMiss(Viewer)
    \/ DownloadOk(Viewer)
    \/ DownloadFail(Viewer)

SpecRun == InitRun /\ [][NextRun]_vars

\* ------------------------------------------------------------------ claims
Min(a, b) == IF a <= b THEN a ELSE b

RECURSIVE SumCounts(_)
SumCounts(view) == IF view = <<>> THEN 0 ELSE Head(view).count + SumCounts(Tail(view))

Occurrences(frame, r) == Cardinality({i \in 1..Len(frame) : frame[i] = r})

\* Every row of part is a row of whole, no row more often than in whole.
DrawnFrom(part, whole) ==
    \A i \in 1..Len(part) : Occurrences(part, part[i]) <= Occurrences(whole, part[i])

\* The pages of runs that went past load_clean.
Ran(s) == page[s].status \in {"ok", "ValueError"}

\* The frames load_clean has returned: the cache's entries and what the
\* pages were rendered from.
Returned ==
    {cache[k].df : k \in DOMAIN cache} \cup {page[s].loaded : s \in {t \in Sessions : Ran(t)}}

\* The raw rows whose timestamp parses.
Parsable == {i \in 1..Len(remote) : ToDatetime(remote[i].INSPECTION_DATE).kind = "ts"}

\* C1: a rerun with a cached SAMPLE_N younger than the TTL downloads nothing,
\* and no run is served an entry older than the TTL: past the TTL the rerun
\* downloads afresh.  (The code gives cache_data no ttl.)
C1_FreshWithinTTL ==
    [][\A s \in Sessions :
        /\ (pc[s] = "idle" /\ pc'[s] = "lock" /\ key'[s] \in DOMAIN cache)
              => cache[key'[s]].age >= TTL
        /\ (pc[s] # "fetch" /\ pc'[s] = "idle" /\ page'[s] # page[s] /\ Ran(s)')
              => cache[page'[s].widgets.SAMPLE_N].age <= TTL]_vars

\* C2: sessions calling load_clean with one SAMPLE_N while none of them has
\* finished cause at most one read_csv call for that key, and all of them
\* are handed the same frame.
C2_SingleFlight ==
    /\ \A k \in SampleNs : burst[k] <= 1
    /\ \A s, t \in Sessions :
        (Ran(s) /\ Ran(t) /\ page[s].widgets.SAMPLE_N = page[t].widgets.SAMPLE_N)
            => page[s].loaded = page[t].loaded

\* C3: a run whose filters leave no row ends without an error, with empty
\* KPIs, aggregate views and map sample.
C3_EmptyIsNoError ==
    \A s \in Sessions :
        (Ran(s) /\ Len(page[s].df) = 0) =>
            /\ page[s].status = "ok"
            /\ page[s].kpi.rows = 0
            /\ page[s].counts = <<>>
            /\ page[s].boro = <<>>
            /\ page[s].yearly = <<>>
            /\ page[s].month = <<>>
            /\ page[s].geo = <<>>

C4_Valid(r) ==
    /\ r.INSPECTION_DATE.kind = "ts"
    /\ r.BOROUGH # NaN
    /\ r.RESULT # NaN

\* r is the record of a raw row of the remote frame.
C4_FromRaw(r) ==
    \E i \in 1..Len(remote) :
        /\ remote[i].INSPECTION_DATE.kind = "text"
        /\ remote[i].INSPECTION_DATE.c = r.INSPECTION_DATE.a
        /\ remote[i].INSPECTION_DATE.a = r.INSPECTION_DATE.b
        /\ remote[i].INSPECTION_DATE.b = r.INSPECTION_DATE.c
        /\ \A c \in KeepCols \ {"INSPECTION_DATE"} : remote[i][c] = r[c]

C4_AllValid(frame) == \A i \in 1..Len(frame) : C4_Valid(frame[i]) /\ C4_FromRaw(frame[i])

\* C4: every record load_clean returns, every record left by the filters
\* and every record of the map sample is the record of a raw row and has a
\* parsed date, a borough and a result.
C4_ValidRecords ==
    /\ \A frame \in Returned : C4_AllValid(frame)
    /\ \A s \in Sessions : Ran(s) => C4_AllValid(page[s].df)
    /\ \A s \in Sessions : page[s].status = "ok" => C4_AllValid(page[s].geo)

\* A page with a map, rendered from a remote frame holding a row without
\* borough and a row whose date does not parse.
C4_Witness ==
    /\ page[Viewer].status = "ok"
    /\ page[Viewer].geo # <<>>
    /\ \E i, j \in 1..Len(remote) :
        /\ remote[i].BOROUGH = NaN
        /\ remote[j].INSPECTION_DATE.a = 13

\* C5: every record load_clean returns has both coordinates or neither.
C5_CoordinatesPaired ==
    \A frame \in Returned : \A i \in 1..Len(frame) :
        (frame[i].LATITUDE = NaN) <=> (frame[i].LONGITUDE = NaN)

C6_BothCoordinates(frame) ==
    SelectSeq(frame, LAMBDA r : r.LATITUDE # NaN /\ r.LONGITUDE # NaN)

\* out is a sample of the frame in with the bound n.
C6_IsSample(out, in, n) ==
    /\ Len(out) = Min(Len(in), n)
    /\ Len(in) <= n => out = in
    /\ DrawnFrom(out, in)

C6_Sizes ==
    /\ \A k \in DOMAIN cache : C6_IsSample(cache[k].df, Normalize(remote), k)
    /\ \A s \in Sessions : page[s].status = "ok" =>
          C6_IsSample(page[s].geo, C6_BothCoordinates(page[s].df), page[s].widgets.MAX_MAP_POINTS)

\* A run that follows a run with the same filtered frame and the same bound
\* selects the same map sample; an entry of the cache is the same for every
\* run that reads it.
C6_Reproducible ==
    /\ \A s \in Sessions :
        (/\ page[s].status = "ok" /\ page'[s].status = "ok"
         /\ page'[s].df = page[s].df
         /\ page'[s].widgets.MAX_MAP_POINTS = page[s].widgets.MAX_MAP_POINTS)
            => page'[s].geo = page[s].geo
    /\ \A s \in Sessions :
        (/\ Ran(s) /\ Ran(s)'
         /\ page'[s].widgets.SAMPLE_N = page[s].widgets.SAMPLE_N)
            => page'[s].loaded = page[s].loaded

C7_Selected(loaded, RESULT_PICK, BORO_PICK) ==
    SelectSeq(loaded, LAMBDA r :
        /\ RESULT_PICK = {} \/ r.RESULT \in RESULT_PICK
        /\ BORO_PICK = {} \/ r.BOROUGH \in BORO_PICK)

\* C7: the records behind the KPIs, the aggregates and the map are exactly
\* the returned records whose RESULT is in a non-empty RESULT_PICK and whose
\* BOROUGH is in a non-empty BORO_PICK.
C7_FilterExact ==
    \A s \in Sessions : Ran(s) =>
        LET want == C7_Selected(page[s].loaded, page[s].widgets.RESULT_PICK, page[s].widgets.BORO_PICK)
        IN  /\ page[s].df = want
            /\ page[s].status = "ok" =>
                /\ page[s].kpi.rows = Len(want)
                /\ SumCounts(page[s].counts) = Len(want)
                /\ SumCounts(page[s].yearly) = Len(want)
                /\ DrawnFrom(page[s].geo, want)

\* A page under two non-empty selections, each of which alone removes a
\* record the other would keep, and which together keep a record.
C7_Witness ==
    LET p == page[Viewer]
        w == p.widgets
    IN  /\ p.status = "ok"
        /\ w.RESULT_PICK # {}
        /\ w.BORO_PICK # {}
        /\ \E i \in 1..Len(p.loaded) :
              p.loaded[i].RESULT \notin w.RESULT_PICK /\ p.loaded[i].BOROUGH \in w.BORO_PICK
        /\ \E i \in 1..Len(p.loaded) :
              p.loaded[i].RESULT \in w.RESULT_PICK /\ p.loaded[i].BOROUGH \notin w.BORO_PICK

\* C8: load_clean's steps applied to what load_clean returned give it back.
C8_Idempotent ==
    \A k \in DOMAIN cache : \A s \in Sessions : Clean(cache[k].df, k, s) = cache[k].df

\* An entry the sampling has cut, which still holds two different records
\* (applied again, the sampling must neither cut nor reorder it).
C8_Witness ==
    \E k \in DOMAIN cache :
        /\ Len(cache[k].df) < Len(Normalize(remote))
        /\ Cardinality({cache[k].df[i] : i \in 1..Len(cache[k].df)}) > 1

\* C9: the records kept are exactly the raw rows whose timestamp parses,
\* and a page shows the number of dropped rows, which with the records
\* shown adds up to the raw rows.
C9_DropsCounted ==
    /\ \A k \in DOMAIN cache :
          Len(Normalize(remote)) <= k => Len(cache[k].df) = Cardinality(Parsable)
    /\ \A s \in Sessions : Ran(s) =>
          /\ "dropped" \in DOMAIN page[s]
          /\ Len(page[s].loaded) + page[s].dropped = Len(remote)

C10_Counted(view, frame, col) ==
    /\ SumCounts(view) = Len(frame)
    /\ \A j \in 1..Len(view) :
        /\ view[j].count >= 1
        /\ view[j].count = Cardinality({i \in 1..Len(frame) : frame[i][col] = view[j].key})
    /\ \A i, j \in 1..Len(view) : i # j => view[i].key # view[j].key

\* C10: each single-dimension view counts every filtered record once under
\* a key that occurs; boroughs come by descending count, years ascending,
\* months in calendar order.
C10_GroupCounts ==
    \A s \in Sessions : page[s].status = "ok" =>
        LET p == page[s]
        IN  /\ C10_Counted(p.counts, p.df, "RESULT")
            /\ C10_Counted(p.boro, p.df, "BOROUGH")
            /\ C10_Counted(p.yearly, p.df, "INSPECTION_YEAR")
            /\ C10_Counted(p.month, p.df, "INSPECTION_MONTH")
            /\ \A j \in 1..(Len(p.boro) - 1) : p.boro[j].count >= p.boro[j + 1].count
            /\ \A j \in 1..(Len(p.yearly) - 1) : p.yearly[j].key < p.yearly[j + 1].key
            /\ \A j \in 1..(Len(p.month) - 1) : p.month[j].key < p.month[j + 1].key
            /\ \A j \in 1..Len(p.month) : p.month[j].key \in 1..12

\* A page whose boroughs differ in count, the rarer one met first, and whose
\* years and months are met out of order.
C10_Witness ==
    /\ page[Viewer].status = "ok"
    /\ Len(page[Viewer].boro) = 2
    /\ page[Viewer].boro[1].count > page[Viewer].boro[2].count
    /\ page[Viewer].df[1].BOROUGH = page[Viewer].boro[2].key
    /\ page[Viewer].df[1].INSPECTION_YEAR = 2020
    /\ Len(page[Viewer].yearly) = 2

====
